---- MODULE Spec2Model ----
(***************************************************************************)
(* Model of keras_retinanet/layers/filter_detections.py:                   *)
(*   filter_detections      (dynamic-shape pipeline),                      *)
(*   filter_detections_tpu  (static-shape pipeline with a ghost anchor),   *)
(*   FilterDetections       (the Keras layer that maps the TPU pipeline    *)
(*                           over a batch).                                *)
(*                                                                         *)
(* Conventions.  Tensors are sequences.  Anchors and positions are 1-based *)
(* (position p of the model is index p-1 of the code); class labels stay   *)
(* 0-based, so that -1 is the "no detection" label as in the code.  Scores *)
(* are integers; score_threshold and nms_threshold are exact rationals.    *)
(* float('-inf') is NegInf, a value below every score and every sentinel.  *)
(***************************************************************************)
EXTENDS Integers, Sequences, FiniteSets, TLC

\* ---------------------------------------------------------------- bounds
MaxN   == 2      \* most anchors of an enumerated image
MaxDet == 2      \* largest max_detections enumerated
PruneN == 5      \* anchors of the images of SpecPrune
MaxB   == 2      \* largest batch of SpecLayer
MaxM   == 1      \* most side tensors given to the layer

\* ------------------------------------------------------ program constants
score_threshold == 1      \* strict cut-off on scores
nms_num         == 1      \* nms_threshold = nms_num / nms_den
nms_den         == 2
Sentinel        == -1     \* constant_values=-1 of the padding
NegInf          == -100   \* float('-inf')

\* ------------------------------------------------------------ input sets
\* Three boxes on a line: a~b and b~c overlap above nms_threshold (IoU 3/5),
\* a and c do not (IoU 1/3); a box compared with itself has IoU 1.
BoxVals    == { <<0, 0, 4, 1>>, <<1, 0, 5, 1>>, <<2, 0, 6, 1>> }
\* score_threshold itself (not above it) and two values above it.
ScoreVals  == { 1, 2, 3 }
ClassCounts == { 1, 2 }

VARIABLES
    boxes,                  \* [N, 4]
    classification,         \* [N, C]
    n_class,                \* C = classification.shape[1]
    other,                  \* list of side tensors, each [N]
    class_specific_filter,
    nms,
    max_detections,
    dets,                   \* what filter_detections returned
    reinput,                \* the detections of dets, as the image of a second call
    redets,                 \* what filter_detections returned on reinput
    dets_tpu,               \* what filter_detections_tpu returned
    layer                   \* what the FilterDetections layer returned / announced

vars == << boxes, classification, n_class, other, class_specific_filter, nms,
           max_detections, dets, reinput, redets, dets_tpu, layer >>

None == [outcome |-> "none"]
Err  == [outcome |-> "error"]

\* ------------------------------------------------------------- tensor ops
Min(a, b) == IF a <= b THEN a ELSE b
Max(a, b) == IF a >= b THEN a ELSE b

\* tf.gather / gather_nd along dimension 0
gather(x, indices) == [j \in 1..Len(indices) |-> x[indices[j]]]

\* tf.pad of pad_size rows of `fill` after the last row
pad(x, pad_size, fill) == x \o [j \in 1..pad_size |-> fill]

\* classification[:, c]
column(cls, c) == [i \in 1..Len(cls) |-> cls[i][c + 1]]

RECURSIVE SeqMax(_)
SeqMax(r) == IF Len(r) = 1 THEN r[1] ELSE Max(r[1], SeqMax(Tail(r)))

\* max(classification, axis=1) for one row
row_max(r) == SeqMax(r)

\* argmax(classification, axis=1) for one row: the first maximal column
row_argmax(r) ==
    CHOOSE c \in 0..(Len(r) - 1) :
        /\ r[c + 1] = SeqMax(r)
        /\ \A d \in 0..(Len(r) - 1) : r[d + 1] = SeqMax(r) => c <= d

\* greater(scores, score_threshold), one element
greater_equal(s, t) == s >= t
greater(s, t) == s > t

\* where(greater(scores, score_threshold)): the passing positions, ascending
RECURSIVE where_from(_, _)
where_from(scores, i) ==
    IF i > Len(scores) THEN << >>
    ELSE (IF greater(scores[i], score_threshold) THEN << i >> ELSE << >>)
         \o where_from(scores, i + 1)

where(scores) == where_from(scores, 1)

\* tf.nn.top_k(scores, k).indices: positions by score descending, of equal
\* scores the lower position first.  Needs 0 <= k <= Len(scores).
RECURSIVE top_k_from(_, _, _)
top_k_from(scores, k, taken) ==
    IF k <= 0 THEN << >>
    ELSE LET free == DOMAIN scores \ taken
             best == CHOOSE i \in free : \A j \in free :
                         \/ scores[i] > scores[j]
                         \/ (scores[i] = scores[j] /\ i <= j)
         IN  << best >> \o top_k_from(scores, k - 1, taken \cup {best})

top_k(scores, k) == top_k_from(scores, k, {})

top_k_fails(scores, k) == k < 0 \/ k > Len(scores)

\* ------------------------------------------------------------ GeometryOps
area(b) == Max(0, b[3] - b[1]) * Max(0, b[4] - b[2])

intersection_area(a, b) ==
    Max(0, Min(a[3], b[3]) - Max(a[1], b[1])) *
    Max(0, Min(a[4], b[4]) - Max(a[2], b[2]))

\* iou(a, b) > nms_threshold, with iou = 0 when the union is empty
iou_exceeds(a, b) ==
    LET inter == intersection_area(a, b)
        union == area(a) + area(b) - inter
    IN  union > 0 /\ inter * nms_den > nms_num * union

\* ---------------------------------------------------- GreedyNMSSuppressor
\* pick the best remaining candidate (of equal scores the lowest index),
\* emit it, drop what it overlaps, until nothing remains or output_size
\* indices are out.
RECURSIVE greedy_nms(_, _, _, _)
greedy_nms(bxs, scores, remaining, output_size) ==
    IF remaining = {} \/ output_size <= 0 THEN << >>
    ELSE LET pick == CHOOSE i \in remaining : \A j \in remaining :
                         \/ scores[i] > scores[j]
                         \/ (scores[i] = scores[j] /\ i <= j)
             rest == { j \in remaining \ {pick} : ~ iou_exceeds(bxs[pick], bxs[j]) }
         IN  << pick >> \o greedy_nms(bxs, scores, rest, output_size - 1)

\* backend.non_max_suppression(boxes, scores, max_output_size, iou_threshold)
non_max_suppression(bxs, scores, max_output_size) ==
    greedy_nms(bxs, scores, DOMAIN scores, max_output_size)

\* backend.non_max_suppression_padded(..., score_threshold,
\* pad_to_max_output_size=True): << indices_padded, n_valid >>; the padding
\* slots hold index 0 of the code, position 1 here.
non_max_suppression_padded(bxs, scores, max_output_size) ==
    LET cand  == { i \in DOMAIN scores : scores[i] > score_threshold }
        valid == greedy_nms(bxs, scores, cand, max_output_size)
    IN  << pad(valid, max_output_size - Len(valid), 1), Len(valid) >>

\* ------------------------------------------------------ filter_detections
\* The function is modelled stage by stage; each stage hands its tensors to
\* the next one as arguments.

\* perform NMS, then filter indices based on NMS
nms_filter(bxs, scores, indices, max_det) ==
    gather(indices,
           non_max_suppression(gather(bxs, indices), gather(scores, indices), max_det))

\* add indices to list of all indices: the pairs << anchor, label >>
stack_indices(kept, labels) ==
    [j \in 1..Len(kept) |-> << kept[j], labels[kept[j]] >>]

\* _filter_detections(scores, labels) with NMS left out
filter_detections_inner_no_nms(bxs, scores, labels, use_nms, max_det) ==
    stack_indices(where(scores), labels)

\* _filter_detections(scores, labels): threshold, optional NMS, stack
filter_detections_inner(bxs, scores, labels, use_nms, max_det) ==
    stack_indices(IF use_nms THEN nms_filter(bxs, scores, where(scores), max_det)
                  ELSE where(scores),
                  labels)

\* the per-class loop and the concatenation of its results, class 0 first
RECURSIVE per_class_from(_, _, _, _, _, _)
per_class_from(bxs, cls, C, use_nms, max_det, c) ==
    IF c >= C THEN << >>
    ELSE filter_detections_inner(bxs, column(cls, c), [i \in 1..Len(cls) |-> c],
                                 use_nms, max_det)
         \o per_class_from(bxs, cls, C, use_nms, max_det, c + 1)

RECURSIVE per_class_down(_, _, _, _, _, _)
per_class_down(bxs, cls, C, use_nms, max_det, c) ==
    IF c < 0 THEN << >>
    ELSE filter_detections_inner(bxs, column(cls, c), [i \in 1..Len(cls) |-> c],
                                 use_nms, max_det)
         \o per_class_down(bxs, cls, C, use_nms, max_det, c - 1)

all_indices_reversed(bxs, cls, C, use_nms, max_det) ==
    per_class_down(bxs, cls, C, use_nms, max_det, C - 1)

all_indices(bxs, cls, C, use_nms, max_det) ==
    per_class_from(bxs, cls, C, use_nms, max_det, 0)

\* the class-agnostic branch: best class of every anchor
best_class_indices(bxs, cls, use_nms, max_det) ==
    filter_detections_inner(bxs,
                            [i \in 1..Len(cls) |-> row_max(cls[i])],
                            [i \in 1..Len(cls) |-> row_argmax(cls[i])],
                            use_nms, max_det)

\* an anchor that passes the threshold in some score row that is filtered
passes(cls, C, csf, i) ==
    IF csf THEN \E c \in 0..(C - 1) : greater(cls[i][c + 1], score_threshold)
    ELSE greater(row_max(cls[i]), score_threshold)

\* gather_nd(boxes, indices) before NMS reads a row boxes does not have
nms_gather_fails(bxs, cls, C, csf, use_nms) ==
    use_nms /\ \E i \in 1..Len(cls) : i > Len(bxs) /\ passes(cls, C, csf, i)

\* pad_size of the final padding
pad_size_short(max_det, n) == Max(0, max_det - n - 1)
pad_size(max_det, n) == Max(0, max_det - n)

SentinelBox == << Sentinel, Sentinel, Sentinel, Sentinel >>

\* filter input using the final set of indices, pad the outputs.  The record
\* also keeps two internal values the properties are stated on: merged
\* (indices before the top-k) and anchors (indices after it).
gather_and_pad(bxs, oth, max_det, indices, scores, top_indices) ==
    LET anchors == gather([j \in 1..Len(indices) |-> indices[j][1]], top_indices)
        labels  == gather([j \in 1..Len(indices) |-> indices[j][2]], top_indices)
        n_pad   == pad_size(max_det, Len(top_indices))
    IN  IF \E j \in 1..Len(anchors) :
              \/ anchors[j] > Len(bxs)
              \/ \E o \in 1..Len(oth) : anchors[j] > Len(oth[o])
        THEN Err                             \* gather past the last row
        ELSE [ outcome |-> "ok",
               boxes   |-> pad(gather(bxs, anchors), n_pad, SentinelBox),
               scores  |-> pad(gather(scores, top_indices), n_pad, Sentinel),
               labels  |-> pad(labels, n_pad, Sentinel),
               other   |-> [o \in 1..Len(oth) |->
                               pad(gather(oth[o], anchors), n_pad, Sentinel)],
               merged  |-> indices,
               anchors |-> anchors ]

\* top_k(scores, k=minimum(max_detections, shape(scores)[0]))
select_top_k(bxs, oth, max_det, indices, scores) ==
    gather_and_pad(bxs, oth, max_det, indices, scores,
                   top_k(scores, Min(max_det, Len(scores))))

\* scores = gather_nd(classification, indices)
select_scores(bxs, cls, oth, max_det, indices) ==
    select_top_k(bxs, oth, max_det, indices,
                 [j \in 1..Len(indices) |-> cls[indices[j][1]][indices[j][2] + 1]])

filter_detections(bxs, cls, C, oth, csf, use_nms, max_det) ==
    IF \/ max_det < 0                       \* NMS / top_k refuse a negative size
       \/ (csf /\ C = 0)                    \* concatenate of an empty list
       \/ nms_gather_fails(bxs, cls, C, csf, use_nms)
    THEN Err
    ELSE select_scores(bxs, cls, oth, max_det,
                       IF csf THEN all_indices(bxs, cls, C, use_nms, max_det)
                       ELSE best_class_indices(bxs, cls, use_nms, max_det))

\* -------------------------------------------------- filter_detections_tpu
DummyBox == << 0, 0, 0, 0 >>            \* tf.zeros(shape=(1, 4))

\* One candidate of a score row: what the code keeps in the parallel tensors
\* scores_adapt, boxes_adapt, labels_adapt.  `anchor` is not a tensor of the
\* code: it records the position the row was gathered from.
Cand(s, b, l, a) == [score |-> s, box |-> b, label |-> l, anchor |-> a]

\* elems = (scores_adapt, boxes_adapt, labels_adapt): dim0_size rows of
\* n_anchor + 1 candidates, the last one the dummy (score -inf, zero box,
\* label -1).
tpu_elems(bxs, cls, C, csf) ==
    IF csf
    THEN [r \in 1..C |-> [i \in 1..(Len(cls) + 1) |->
             IF i <= Len(cls) THEN Cand(cls[i][r], bxs[i], r - 1, i)
             ELSE Cand(NegInf, DummyBox, Sentinel, i)]]
    ELSE << [i \in 1..(Len(cls) + 1) |->
             IF i <= Len(cls) THEN Cand(row_max(cls[i]), bxs[i], row_argmax(cls[i]), i)
             ELSE Cand(NegInf, DummyBox, Sentinel, i)] >>

scores_of(rows) == [i \in 1..Len(rows) |-> rows[i].score]
boxes_of(rows)  == [i \in 1..Len(rows) |-> rows[i].box]

\* dummy_index = tf.shape(scores)[0] - 1: the last position of what is sorted
dummy_index_before_last(rows) == Max(1, Len(rows) - 1)
dummy_index(rows) == Len(rows)

\* tf.nn.top_k refuses k above the length of scores
sort_by_scores_fails(rows, output_size, use_nms) ==
    ~ use_nms /\ top_k_fails(scores_of(rows), output_size)

\* tf.where(tf.range(max_detections) < n_valid, indices_padded, dummy_index),
\* r = << indices_padded, n_valid >>
where_valid(r, max_det, dummy) ==
    [i \in 1..max_det |-> IF i <= r[2] THEN r[1][i] ELSE dummy]

\* tf.where(topk_scores > score_threshold, indices_padded, dummy_index)
where_above(scores, idx, dummy) ==
    [i \in 1..Len(idx) |-> IF scores[idx[i]] > score_threshold THEN idx[i] ELSE dummy]

\* indices_padded of _sort_by_scores, invalid slots rewritten to dummy_index
indices_padded(rows, output_size, use_nms, max_det) ==
    IF use_nms
    THEN where_valid(non_max_suppression_padded(boxes_of(rows), scores_of(rows),
                                                output_size),
                     max_det, dummy_index(rows))
    ELSE where_above(scores_of(rows), top_k(scores_of(rows), output_size),
                     dummy_index(rows))

\* _sort_by_scores(scores, others, output_size, use_nms)
sort_by_scores(rows, output_size, use_nms, max_det) ==
    gather(rows, indices_padded(rows, output_size, use_nms, max_det))

\* _pre_exclude, _sort_by_1st_arg_using_topk, _sort_by_1st_arg_using_nms
pre_exclude(rows, max_det) == sort_by_scores(rows, max_det * 2, FALSE, max_det)
sort_by_1st_arg_using_topk(rows, max_det) == sort_by_scores(rows, max_det, FALSE, max_det)
sort_by_1st_arg_using_nms(rows, max_det) == sort_by_scores(rows, max_det, TRUE, max_det)

\* func = _sort_by_1st_arg_using_nms if nms else _sort_by_1st_arg_using_topk
func(rows, use_nms, max_det) ==
    IF use_nms THEN sort_by_1st_arg_using_nms(rows, max_det)
    ELSE sort_by_1st_arg_using_topk(rows, max_det)

\* res = tf.map_fn(_pre_exclude, elems=elems, ...)
map_pre_exclude(elems, max_det) ==
    [r \in 1..Len(elems) |-> pre_exclude(elems[r], max_det)]

\* what the second tf.map_fn maps func over: `elems`, not the result `res`
\* of the pre-exclude pass
second_pass_elems(elems, res) == elems

\* res = tf.map_fn(func, elems=elems, ...)
map_func(elems, use_nms, max_det) ==
    [r \in 1..Len(elems) |-> func(elems[r], use_nms, max_det)]

\* the reshape that flattens the first two dimensions
RECURSIVE flatten(_)
flatten(res) == IF Len(res) = 0 THEN << >> ELSE Head(res) \o flatten(Tail(res))

\* The returned tensors.  The record also keeps internal values the
\* properties are stated on: anchors, flat (the flattened per-class result),
\* slots (the scores the final top_k picked) and dummy (the dummy_index of
\* the final merge).
tpu_outputs(csf, max_det, flat, final) ==
    [ outcome |-> "ok",
      boxes   |-> boxes_of(final),
      scores  |-> scores_of(final),
      labels  |-> [i \in 1..Len(final) |-> final[i].label],
      anchors |-> [i \in 1..Len(final) |-> final[i].anchor],
      flat    |-> flat,
      slots   |-> IF csf THEN gather(scores_of(flat), top_k(scores_of(flat), max_det))
                  ELSE << >>,
      dummy   |-> IF csf THEN dummy_index(flat) ELSE 0 ]

\* if class_specific_filter: res = _sort_by_1st_arg_using_topk(res)
tpu_merge(csf, max_det, flat) ==
    tpu_outputs(csf, max_det, flat,
                IF csf THEN sort_by_1st_arg_using_topk(flat, max_det) ELSE flat)

\* the two map_fn passes and the flattening.  pre_runs: whether the unused
\* result of the pre-exclude map_fn is evaluated at all (eager execution, or
\* a static shape check while the graph is built) or dropped as dead code of
\* the graph: its top_k can fail only when it is evaluated.
tpu_passes(elems, csf, use_nms, max_det, pre_runs) ==
    IF \/ pre_runs /\ \E r \in 1..Len(elems) :
                         sort_by_scores_fails(elems[r], max_det * 2, FALSE)
       \/ \E r \in 1..Len(elems) : sort_by_scores_fails(elems[r], max_det, use_nms)
    THEN Err
    ELSE tpu_merge(csf, max_det,
                   flatten(map_func(second_pass_elems(elems,
                                                      map_pre_exclude(elems, max_det)),
                                    use_nms, max_det)))

filter_detections_tpu(bxs, cls, C, csf, use_nms, max_det, pre_runs) ==
    tpu_passes(tpu_elems(bxs, cls, C, csf), csf, use_nms, max_det, pre_runs)

\* ------------------------------------------------------------------ inputs
\* the side tensor of an image with n anchors: one payload per anchor
Payload(n) == [i \in 1..n |-> 10 + i]

TypeConfig ==
    /\ class_specific_filter \in BOOLEAN
    /\ nms \in BOOLEAN
    /\ max_detections \in 0..MaxDet

Fresh ==
    /\ dets = None
    /\ reinput = None
    /\ redets = None
    /\ dets_tpu = None
    /\ layer = None

\* valid images: N anchors, C >= 1 classes, one side tensor
Init ==
    /\ \E N \in 0..MaxN, C \in ClassCounts :
          /\ n_class = C
          /\ boxes \in [1..N -> BoxVals]
          /\ classification \in [1..N -> [1..C -> ScoreVals]]
          /\ other = << Payload(N) >>
    /\ TypeConfig
    /\ Fresh

\* a call of filter_detections on the image
Filter ==
    /\ dets = None /\ dets_tpu = None
    /\ dets' = filter_detections(boxes, classification, n_class, other,
                                 class_specific_filter, nms, max_detections)
    /\ UNCHANGED << boxes, classification, n_class, other, class_specific_filter,
                    nms, max_detections, reinput, redets, dets_tpu, layer >>

\* a call of filter_detections_tpu on the image
FilterTpu ==
    /\ dets = None /\ dets_tpu = None
    /\ \E pre_runs \in BOOLEAN :
          dets_tpu' = filter_detections_tpu(boxes, classification, n_class,
                                            class_specific_filter, nms,
                                            max_detections, pre_runs)
    /\ UNCHANGED << boxes, classification, n_class, other, class_specific_filter,
                    nms, max_detections, dets, reinput, redets, layer >>

\* the rows of an output that are detections, in output order
RECURSIVE real_rows_from(_, _)
real_rows_from(labels, i) ==
    IF i > Len(labels) THEN << >>
    ELSE (IF labels[i] # Sentinel THEN << i >> ELSE << >>)
         \o real_rows_from(labels, i + 1)

RealRows(d) == real_rows_from(d.labels, 1)

\* score values that do not pass the threshold
Fillers == { 0, score_threshold }

\* The detections of dets become the image of a second call: anchor i is
\* detection i, with its score in the column of its label and a filler that
\* does not pass the threshold in every other column.
Feed ==
    /\ dets.outcome = "ok" /\ reinput = None
    /\ \E filler \in Fillers :
          LET rows == RealRows(dets)
          IN  reinput' =
                 [ outcome        |-> "ok",
                   boxes          |-> gather(dets.boxes, rows),
                   classification |-> [i \in 1..Len(rows) |-> [c \in 1..n_class |->
                                         IF c - 1 = dets.labels[rows[i]]
                                         THEN dets.scores[rows[i]] ELSE filler]],
                   other          |-> [o \in 1..Len(other) |-> gather(dets.other[o], rows)] ]
    /\ UNCHANGED << boxes, classification, n_class, other, class_specific_filter,
                    nms, max_detections, dets, redets, dets_tpu, layer >>

\* filter_detections again, with the same configuration, on reinput
Refilter ==
    /\ reinput.outcome = "ok" /\ redets = None
    /\ redets' = filter_detections(reinput.boxes, reinput.classification, n_class,
                                   reinput.other, class_specific_filter, nms,
                                   max_detections)
    /\ UNCHANGED << boxes, classification, n_class, other, class_specific_filter,
                    nms, max_detections, dets, reinput, dets_tpu, layer >>

Next == Filter \/ Feed \/ Refilter \/ FilterTpu

Spec == Init /\ [][Next]_vars

\* --------------------------------------------- the coarse pre-prune at work
\* images large enough for 2 x max_detections to cut: PruneN anchors, one class
InitPrune ==
    /\ n_class = 1
    /\ boxes \in [1..PruneN -> BoxVals]
    /\ classification \in [1..PruneN -> [1..1 -> ScoreVals]]
    /\ other = << Payload(PruneN) >>
    /\ class_specific_filter \in BOOLEAN
    /\ nms \in BOOLEAN
    /\ max_detections = MaxDet
    /\ Fresh

NextPrune == FilterTpu

SpecPrune == InitPrune /\ [][NextPrune]_vars

\* ------------------------------------------------- calls outside the contract
\* boxes, classification and the side tensor may disagree on the number of
\* anchors, max_detections may be negative, and there may be no class at all
\* (then with class_specific_filter, the case the contract names).
ContractViolated ==
    \/ Len(boxes) # Len(classification)
    \/ \E o \in 1..Len(other) : Len(other[o]) # Len(classification)
    \/ max_detections < 0
    \/ (n_class = 0 /\ class_specific_filter)

InitContract ==
    /\ \E NB \in 0..MaxN, N \in 0..MaxN, NO \in 0..MaxN, C \in 0..1 :
          /\ n_class = C
          /\ boxes \in [1..NB -> BoxVals]
          /\ classification \in [1..N -> [1..C -> ScoreVals]]
          /\ other = << Payload(NO) >>
    /\ class_specific_filter \in BOOLEAN
    /\ nms \in BOOLEAN
    /\ max_detections \in (-1)..MaxDet
    /\ n_class = 0 => class_specific_filter
    /\ ContractViolated
    /\ Fresh

NextContract == Filter

SpecContract == InitContract /\ [][NextContract]_vars

\* ------------------------------------------------------- FilterDetections
\* In SpecLayer every tensor carries a leading batch dimension: boxes is
\* [B, N, 4], classification [B, N, C], other a list of m tensors [B, N];
\* `layer` holds what each method of the layer returned.

\* FilterDetections.call: tf.map_fn of filter_detections_tpu(b, c, None, ...)
\* over the batch; inputs = [b, c, *oth], and oth is unpacked and not used.
call(b, c, C, oth, csf, use_nms, max_det, pre_runs) ==
    LET outs == [k \in 1..Len(b) |->
                    filter_detections_tpu(b[k], c[k], C, csf, use_nms, max_det, pre_runs)]
    IN  IF \E k \in 1..Len(b) : outs[k].outcome = "error" THEN Err
        ELSE [ outcome |-> "ok",
               outputs |-> << [k \in 1..Len(b) |-> outs[k].boxes],
                              [k \in 1..Len(b) |-> outs[k].scores],
                              [k \in 1..Len(b) |-> outs[k].labels] >>,
               anchors |-> [k \in 1..Len(b) |-> outs[k].anchors] ]

\* shapes as tuples of dimensions; a side tensor [B, N] has input shape
\* << B, N >>, boxes << B, N, 4 >>, classification << B, N, C >>
input_shapes(b, c, C, oth) ==
    LET B == Len(b)
        N == IF B = 0 THEN 0 ELSE Len(c[1])
    IN  << << B, N, 4 >>, << B, N, C >> >> \o [o \in 1..Len(oth) |-> << B, N >>]

\* FilterDetections.compute_output_shape
compute_output_shape(input_shape, max_det) ==
    << << input_shape[1][1], max_det, 4 >>,
       << input_shape[2][1], max_det >>,
       << input_shape[2][1], max_det >> >>
    \o [i \in 1..(Len(input_shape) - 2) |->
           << input_shape[i + 2][1], max_det >> \o SubSeq(input_shape[i + 2], 3, Len(input_shape[i + 2]))]

\* FilterDetections.compute_mask: (len(inputs) + 1) * [None]
compute_mask(n_inputs) == [i \in 1..(n_inputs + 1) |-> "None"]

LayerFresh == [call |-> None, shapes |-> << >>, masks |-> << >>]

InitLayer ==
    /\ \E B \in 1..MaxB, N \in 0..1, C \in ClassCounts, m \in 0..MaxM :
          /\ n_class = C
          /\ boxes \in [1..B -> [1..N -> BoxVals]]
          /\ classification \in [1..B -> [1..N -> [1..C -> ScoreVals]]]
          /\ other = [o \in 1..m |-> [k \in 1..B |-> Payload(N)]]
    /\ TypeConfig
    /\ dets = None /\ reinput = None /\ redets = None /\ dets_tpu = None
    /\ layer = LayerFresh

Call ==
    /\ layer.call = None
    /\ \E pre_runs \in BOOLEAN :
          layer' = [layer EXCEPT !.call =
                       call(boxes, classification, n_class, other,
                            class_specific_filter, nms, max_detections, pre_runs)]
    /\ UNCHANGED << boxes, classification, n_class, other, class_specific_filter,
                    nms, max_detections, dets, reinput, redets, dets_tpu >>

ComputeOutputShape ==
    /\ layer.shapes = << >>
    /\ layer' = [layer EXCEPT !.shapes =
                    compute_output_shape(input_shapes(boxes, classification, n_class, other),
                                         max_detections)]
    /\ UNCHANGED << boxes, classification, n_class, other, class_specific_filter,
                    nms, max_detections, dets, reinput, redets, dets_tpu >>

ComputeMask ==
    /\ layer.masks = << >>
    /\ layer' = [layer EXCEPT !.masks = compute_mask(2 + Len(other))]
    /\ UNCHANGED << boxes, classification, n_class, other, class_specific_filter,
                    nms, max_detections, dets, reinput, redets, dets_tpu >>

NextLayer == Call \/ ComputeOutputShape \/ ComputeMask

SpecLayer == InitLayer /\ [][NextLayer]_vars

\* ================================================================ properties

\* the rows of a returned record as << box, score, label >>, detections only
Rows(d) ==
    [k \in 1..Len(RealRows(d)) |->
        << d.boxes[RealRows(d)[k]], d.scores[RealRows(d)[k]], d.labels[RealRows(d)[k]] >>]

\* max_detections rows, each a sentinel row or a detection above the threshold
RowsOk(d) ==
    /\ Len(d.boxes) = max_detections
    /\ Len(d.scores) = max_detections
    /\ Len(d.labels) = max_detections
    /\ \A o \in 1..Len(d.other) : Len(d.other[o]) = max_detections
    /\ \A i \in 1..max_detections :
          \/ /\ d.labels[i] = Sentinel
             /\ d.boxes[i] = SentinelBox
             /\ d.scores[i] = Sentinel
             /\ \A o \in 1..Len(d.other) : d.other[o][i] = Sentinel
          \/ /\ d.labels[i] # Sentinel
             /\ d.scores[i] > score_threshold
             /\ d.labels[i] \in 0..(n_class - 1)

\* C1: on every valid input (N >= 0, C >= 1, max_detections >= 0, any nms and
\* class_specific_filter) filter_detections returns, and returns boxes,
\* scores, labels and every other[k] with exactly max_detections rows, each
\* row either all sentinel (-1 in every field) or a detection with
\* score > score_threshold and 0 <= label < C.
C1_FixedSizeRows ==
    /\ dets.outcome # "error"
    /\ redets.outcome # "error"
    /\ dets.outcome = "ok" => RowsOk(dets)
    /\ redets.outcome = "ok" => RowsOk(redets)

C1_Witness ==
    /\ dets.outcome = "ok"
    /\ max_detections >= 2
    /\ dets.labels[1] # Sentinel
    /\ dets.labels[max_detections] = Sentinel

\* two detections of an output overlap above nms_threshold only in per-class
\* mode and only under different labels
NoOverlap(d) ==
    \A i, j \in 1..Len(d.labels) :
        ( /\ i < j
          /\ d.labels[i] # Sentinel
          /\ d.labels[j] # Sentinel
          /\ iou_exceeds(d.boxes[i], d.boxes[j]) )
        => (class_specific_filter /\ d.labels[i] # d.labels[j])

\* C2: with nms on, in the output of filter_detections and of
\* filter_detections_tpu no two non-sentinel rows have IoU > nms_threshold
\* when class_specific_filter is off, and any two that do carry different
\* labels when it is on.
C2_NmsSeparates ==
    nms => /\ dets.outcome = "ok" => NoOverlap(dets)
           /\ redets.outcome = "ok" => NoOverlap(redets)
           /\ dets_tpu.outcome = "ok" => NoOverlap(dets_tpu)

\* two overlapping anchors pass the threshold and NMS drops one of them
C2_Witness ==
    /\ nms /\ ~ class_specific_filter
    /\ dets.outcome = "ok"
    /\ max_detections = 2
    /\ Len(boxes) = 2
    /\ iou_exceeds(boxes[1], boxes[2])
    /\ \A i \in 1..2 : row_max(classification[i]) > score_threshold
    /\ dets.labels[1] # Sentinel
    /\ dets.labels[2] = Sentinel

\* the candidates of the merged set that the top-k left out
LeftOut(d) ==
    { p \in 1..Len(d.merged) :
        \A i \in 1..Len(d.anchors) : << d.anchors[i], d.labels[i] >> # d.merged[p] }

MergedScore(d, cls, p) == cls[d.merged[p][1]][d.merged[p][2] + 1]

\* the top-k part every reading of the tie-break shares: the count, the
\* descending order, and nothing left out beats a row that is in
TopKSelects(d, cls) ==
    /\ Len(d.anchors) = Min(max_detections, Len(d.merged))
    /\ \A i \in 1..Len(d.anchors) : d.labels[i] # Sentinel
    /\ \A i \in (Len(d.anchors) + 1)..max_detections : d.labels[i] = Sentinel
    /\ \A i \in 1..Len(d.anchors) :
          \E p \in 1..Len(d.merged) : d.merged[p] = << d.anchors[i], d.labels[i] >>
    /\ \A i, j \in 1..Len(d.anchors) : i < j => d.scores[i] >= d.scores[j]
    /\ \A p \in LeftOut(d), i \in 1..Len(d.anchors) : MergedScore(d, cls, p) <= d.scores[i]

\* equal scores: the lower anchor first
TiesByAnchor(d, cls) ==
    /\ \A i, j \in 1..Len(d.anchors) :
          (i < j /\ d.scores[i] = d.scores[j]) => d.anchors[i] <= d.anchors[j]
    /\ \A p \in LeftOut(d), i \in 1..Len(d.anchors) :
          MergedScore(d, cls, p) = d.scores[i] => d.anchors[i] <= d.merged[p][1]

\* equal scores: the lower label first, and under one label the lower anchor
LabelThenAnchor(l1, a1, l2, a2) == l1 < l2 \/ (l1 = l2 /\ a1 < a2)

TiesByLabelThenAnchor(d, cls) ==
    /\ \A i, j \in 1..Len(d.anchors) :
          (i < j /\ d.scores[i] = d.scores[j])
          => LabelThenAnchor(d.labels[i], d.anchors[i], d.labels[j], d.anchors[j])
    /\ \A p \in LeftOut(d), i \in 1..Len(d.anchors) :
          MergedScore(d, cls, p) = d.scores[i]
          => LabelThenAnchor(d.labels[i], d.anchors[i], d.merged[p][2], d.merged[p][1])

\* C3 as stated: the final top-k of filter_detections outputs the
\* min(max_detections, size of the merged set) best candidates by score
\* descending, and of two merged candidates with equal score the one with
\* the lower original anchor index comes first, in class-agnostic and in
\* per-class mode.
C3_TiesByAnchorIndex ==
    dets.outcome = "ok" =>
        TopKSelects(dets, classification) /\ TiesByAnchor(dets, classification)

\* C3 amended: the same selection and order by score; of two candidates with
\* equal score the one earlier in the merged set comes first, which is the
\* lower anchor index in class-agnostic mode and, in per-class mode, the
\* lower label and under one label the lower anchor index.
C3_TiesByMergedPosition ==
    dets.outcome = "ok" =>
        /\ TopKSelects(dets, classification)
        /\ IF class_specific_filter
           THEN TiesByLabelThenAnchor(dets, classification)
           ELSE TiesByAnchor(dets, classification)

\* two classes tie and the higher anchor, of the lower class, comes first
C3_Witness ==
    /\ dets.outcome = "ok"
    /\ class_specific_filter
    /\ Len(dets.anchors) >= 2
    /\ dets.scores[1] = dets.scores[2]
    /\ dets.labels[1] < dets.labels[2]
    /\ dets.anchors[1] > dets.anchors[2]

\* C4: every row of the output of filter_detections_tpu that was routed to
\* the ghost anchor looks like a padding row of filter_detections: box
\* (-1,-1,-1,-1), score -1, label -1; so every row with label -1 is all
\* sentinel.
C4_GhostRowsAreSentinel ==
    dets_tpu.outcome = "ok" =>
        \A i \in 1..Len(dets_tpu.labels) :
            dets_tpu.labels[i] = Sentinel =>
                dets_tpu.boxes[i] = SentinelBox /\ dets_tpu.scores[i] = Sentinel

\* the anchors the coarse pre-prune keeps of one score row: its top
\* 2 x max_detections by raw score
PrePruned(rows) ==
    LET k == Min(2 * max_detections, Len(rows))
    IN  { top_k(scores_of(rows), k)[j] : j \in 1..k }

\* C5: filter_detections_tpu runs its NMS/top-k pass on what the coarse
\* pre-prune left: every anchor of a non-ghost output row is among the top
\* 2 x max_detections raw scores of its score row.
C5_OutputWithinPrePrune ==
    dets_tpu.outcome = "ok" =>
        \A i \in 1..Len(dets_tpu.labels) :
            dets_tpu.labels[i] # Sentinel =>
                dets_tpu.anchors[i] \in
                    PrePruned(tpu_elems(boxes, classification, n_class, class_specific_filter)
                                  [IF class_specific_filter THEN dets_tpu.labels[i] + 1 ELSE 1])

\* the side tensor other[o] of image k gathered at the selected anchors,
\* -1 where the row is no detection
GatheredOther(o, k) ==
    [i \in 1..max_detections |->
        IF layer.call.outputs[3][k][i] = Sentinel THEN Sentinel
        ELSE other[o][k][layer.call.anchors[k][i]]]

\* C6: FilterDetections.call on [boxes, classification, other[0..m-1]]
\* returns 3 + m batched tensors, as many and of the shapes that
\* compute_output_shape and compute_mask announce: boxes, scores, labels and
\* per other[k] a tensor [B, max_detections] of other[k] gathered at the
\* selected anchors and padded with -1.
C6_CallMatchesAnnounced ==
    (layer.call.outcome = "ok" /\ layer.shapes # << >> /\ layer.masks # << >>) =>
        /\ Len(layer.call.outputs) = 3 + Len(other)
        /\ Len(layer.shapes) = Len(layer.call.outputs)
        /\ Len(layer.masks) = Len(layer.call.outputs)
        /\ \A p \in 1..Len(layer.call.outputs) :
              /\ Len(layer.call.outputs[p]) = layer.shapes[p][1]
              /\ \A k \in 1..Len(layer.call.outputs[p]) :
                    Len(layer.call.outputs[p][k]) = layer.shapes[p][2]
        /\ \A o \in 1..Len(other), k \in 1..Len(boxes) :
              layer.call.outputs[3 + o][k] = GatheredOther(o, k)

\* no score of the image passes the threshold
NothingPasses ==
    \A i \in 1..Len(classification), c \in 1..n_class :
        classification[i][c] <= score_threshold

\* the degenerate-but-valid calls
Degenerate ==
    \/ Len(classification) = 0
    \/ Len(classification) + 1 < max_detections
    \/ Len(classification) + 1 < 2 * max_detections
    \/ NothingPasses

\* C7: a degenerate-but-valid call of filter_detections_tpu (no anchor, fewer
\* anchors than max_detections or than 2 x max_detections, or no score above
\* the threshold) is no error, for any nms and class_specific_filter: it
\* returns max_detections rows, a detection only where a score passes the
\* threshold, all labels -1 when nothing passes.
C7_DegenerateIsNoError ==
    (dets_tpu.outcome # "none" /\ Degenerate) =>
        /\ dets_tpu.outcome = "ok"
        /\ Len(dets_tpu.labels) = max_detections
        /\ \A i \in 1..Len(dets_tpu.labels) :
              dets_tpu.labels[i] # Sentinel => dets_tpu.scores[i] > score_threshold
        /\ NothingPasses => \A i \in 1..Len(dets_tpu.labels) : dets_tpu.labels[i] = Sentinel

\* C8: a call of filter_detections outside the contract (boxes,
\* classification or other[k] disagreeing on the number of anchors,
\* max_detections < 0, or C = 0 with class_specific_filter) ends in an error
\* and never in a returned output.
C8_ContractViolationFails ==
    ContractViolated => dets.outcome # "ok"

\* C9: filter_detections is idempotent on its own output: run again, with
\* the same configuration, on the non-sentinel rows of an output (each row
\* an anchor whose classification holds its score in the column of its label
\* and values not above the threshold elsewhere), it returns the same
\* non-sentinel rows (box, score, label) in the same order.
C9_Idempotent ==
    redets.outcome # "none" =>
        redets.outcome = "ok" /\ Rows(redets) = Rows(dets)

\* the second call had at least two detections to order, two of them tied
C9_Witness ==
    /\ redets.outcome = "ok"
    /\ nms /\ class_specific_filter
    /\ Len(Rows(redets)) >= 2
    /\ redets.scores[1] = redets.scores[2]

\* C10: in the final cross-class merge of filter_detections_tpu
\* (class_specific_filter, max_detections >= 1) the dummy index is the last
\* position of the flattened per-class result, and whenever a slot of the
\* final top-k has a score not above score_threshold, so that it is
\* redirected there, the row stored there is a ghost row (label -1, score
\* -inf): the slot comes out as a ghost row, never as a copy of a detection.
C10_MergeDummyIsGhost ==
    (dets_tpu.outcome = "ok" /\ class_specific_filter /\ max_detections >= 1) =>
        /\ dets_tpu.dummy = Len(dets_tpu.flat)
        /\ \A s \in 1..Len(dets_tpu.slots) :
              dets_tpu.slots[s] <= score_threshold =>
                  /\ dets_tpu.flat[Len(dets_tpu.flat)].label = Sentinel
                  /\ dets_tpu.flat[Len(dets_tpu.flat)].score = NegInf
                  /\ dets_tpu.labels[s] = Sentinel
                  /\ dets_tpu.scores[s] = NegInf

\* a slot is redirected while the output also holds a detection
C10_Witness ==
    /\ dets_tpu.outcome = "ok"
    /\ class_specific_filter
    /\ max_detections >= 2
    /\ dets_tpu.labels[1] # Sentinel
    /\ \E s \in 1..Len(dets_tpu.slots) : dets_tpu.slots[s] <= score_threshold

====
